---- MODULE Spec2Model ----
(***************************************************************************)
(* Model of the expense tracker: the PostgreSQL store behind               *)
(* database.Database, the User operations of user.py and the reports of    *)
(* financial_report.py.                                                    *)
(*                                                                         *)
(* The store is the four tables with their serial sequences.  Every call   *)
(* of a Database method is one atomic step: connect, one statement (or     *)
(* the statements of db_init), commit, close.  The environment decides     *)
(* per call whether psycopg2.connect fails ("connect") or the statement    *)
(* meets a database error that has nothing to do with the rows ("db").     *)
(***************************************************************************)
EXTENDS Integers, Sequences, FiniteSets, TLC

\* ---------------------------------------------------------------- bounds
MaxInits == 2          \* calls of db_init that reach the store
MaxUserSeq == 3        \* values drawn from users_user_id_seq
MaxTransactions == 2   \* values drawn from transactions_transaction_id_seq

\* ---------------------------------------------------------------- inputs
Usernames == {"alice", "bob"}
Passwords == {"pw123", "wrong"}
Salts == {1, 2}
Descriptions == {"lunch", "taxi"}
Amounts == {50, 75}
Dates == {"2024-01-05"}
Faults == {"none", "connect", "db"}

\* e-mail addresses as typed: a local part and a domain; the third has no
\* domain and is syntactically invalid
Emails ==
    { [local |-> "alice", domain |-> "example.com"],
      [local |-> "alice", domain |-> "EXAMPLE.COM"],
      [local |-> "bob", domain |-> "example.com"],
      [local |-> "alice.example.com", domain |-> ""] }

NoEmail == [local |-> "", domain |-> ""]

\* the user ids a session holds after login
SessionUserIds == {1, 2}

\* a session between two actions of the menu
AtMenu == [pc |-> "menu", transaction_id |-> 0]

\* the rows db_init seeds, in statement order
CategoryNames ==
    << "Food", "Transportation", "Utilities", "Entertainment", "Health", "Account" >>
TypeNames == << "Income", "Expense" >>

\* ----------------------------------------------------------------- state
VARIABLES
    tables,            \* TRUE once the four tables exist
    users,             \* rows of users
    categories,        \* rows of categories
    types,             \* rows of types
    transactions,      \* rows of transactions
    user_seq,          \* last value of users_user_id_seq
    category_seq,      \* last value of categories_category_id_seq
    type_seq,          \* last value of types_type_id_seq
    transaction_seq,   \* last value of transactions_transaction_id_seq
    connection,        \* Database.connection: "None" or "open"
    live,              \* connections opened and not yet closed
    last,              \* the call that ended last and what it gave back
    registered,        \* history: the (username, password) pairs register accepted
    session            \* per shell session: where its User method stands

store == << tables, users, categories, types, transactions,
            user_seq, category_seq, type_seq, transaction_seq, registered, session >>
vars == << tables, users, categories, types, transactions,
           user_seq, category_seq, type_seq, transaction_seq,
           connection, live, last, registered, session >>

\* the record of a call; every field is always present.  typed holds the
\* lines read at the integer prompts, out what a menu loop displayed, login
\* and menu what main got from login and which menu call it went on to
NoCall ==
    [ op |-> "none", layer |-> "none", actor |-> 0, tid |-> 0, name |-> "",
      email |-> NoEmail, password |-> "",
      ret |-> "None", raised |-> "none", error |-> "none", fault |-> "none",
      rows |-> {}, total |-> 0, message |-> "none", calls |-> << >>,
      typed |-> << >>, amount |-> 0, description |-> "", login |-> "none", menu |-> "none", out |-> << >> ]

\* ------------------------------------------------- connection handling
Conn == [connection |-> connection, live |-> live]

\* Database.connect: a failure of psycopg2.connect is printed and the
\* attribute is left as it was
Connect(c, fault) ==
    IF fault = "connect"
      THEN c
      ELSE [connection |-> "open", live |-> c.live + 1]

\* Database.close
CloseKeepAttribute(c) ==
    IF c.connection # "None"
      THEN [connection |-> c.connection, live |-> c.live - 1]
      ELSE c

Close(c) ==
    IF c.connection # "None"
      THEN [connection |-> "None", live |-> c.live - 1]
      ELSE c

\* every Database method: connect(), try ... finally close()
AfterCall(c, fault) == Close(Connect(c, fault))

\* what a method body does before its statement runs: with no connection
\* self.connection.cursor() is an attribute access on None, which no
\* "except psycopg2.DatabaseError" clause catches
Raised(fault) == IF fault = "connect" THEN "AttributeError" ELSE "none"

\* the error class the statement ends with when the rows do not decide it
EnvError(fault) ==
    CASE fault = "connect" -> "OperationalError"
      [] fault = "db" -> "DatabaseError"
      [] OTHER -> "none"

Init ==
    /\ tables = FALSE
    /\ users = {}
    /\ categories = {}
    /\ types = {}
    /\ transactions = {}
    /\ user_seq = 0
    /\ category_seq = 0
    /\ type_seq = 0
    /\ transaction_seq = 0
    /\ connection = "None"
    /\ live = 0
    /\ last = NoCall
    /\ registered = {}
    /\ session = [u \in SessionUserIds |-> AtMenu]

\* ------------------------------------------------------------- db_init
\* the rows the two seeding INSERTs add: category_name and type_name carry
\* no unique constraint, so ON CONFLICT DO NOTHING never skips a row
SeedCategories(seq) ==
    { [category_id |-> seq + i, category_name |-> CategoryNames[i]] :
        i \in 1..Len(CategoryNames) }

SeedTypes(seq) ==
    { [type_id |-> seq + i, type_name |-> TypeNames[i]] : i \in 1..Len(TypeNames) }

DbInit(fault) ==
    /\ category_seq < MaxInits * Len(CategoryNames)
    /\ LET c == AfterCall(Conn, fault) IN
         /\ connection' = c.connection
         /\ live' = c.live
    /\ IF fault = "none"
         THEN /\ tables' = TRUE
              /\ categories' = categories \cup SeedCategories(category_seq)
              /\ types' = types \cup SeedTypes(type_seq)
              /\ category_seq' = category_seq + Len(CategoryNames)
              /\ type_seq' = type_seq + Len(TypeNames)
         ELSE UNCHANGED << tables, categories, types, category_seq, type_seq >>
    /\ UNCHANGED << session, registered, users, transactions, user_seq, transaction_seq >>
    /\ last' = [NoCall EXCEPT !.op = "db_init", !.layer = "db", !.fault = fault,
                              !.raised = Raised(fault), !.error = EnvError(fault)]

\* ------------------------------------------------------------ passwords
PasswordCode(p) == IF p = "pw123" THEN 1 ELSE IF p = "wrong" THEN 2 ELSE 3

\* bcrypt.hashpw(password, salt): the salt travels with the digest
Hashpw(p, salt) ==
    [salt |-> salt, digest |-> (PasswordCode(p) * 31 + salt * 17) % 101]

\* bcrypt.checkpw(password, hashed): hash again under the stored salt
Checkpw(p, hashed) == Hashpw(p, hashed.salt) = hashed

Hashes == { Hashpw(p, s) : p \in Passwords, s \in Salts }

\* --------------------------------------------------------------- e-mail
Lower(d) == IF d = "EXAMPLE.COM" THEN "example.com" ELSE d

\* email_validator.validate_email(...).normalized; "None" stands for the
\* EmailNotValidError that check_email turns into None
CheckEmailAcceptAll(e) ==
    [valid |-> TRUE, email |-> [local |-> e.local, domain |-> Lower(e.domain)]]

CheckEmail(e) ==
    IF e.local # "" /\ e.domain # ""
      THEN [valid |-> TRUE, email |-> [local |-> e.local, domain |-> Lower(e.domain)]]
      ELSE [valid |-> FALSE, email |-> NoEmail]

\* ------------------------------------------------------------- add_user
\* the outcome of the INSERT INTO users statement
AddUserErrorNoUnique(username, email, fault) ==
    CASE fault # "none" -> EnvError(fault)
      [] ~tables -> "UndefinedTable"
      [] OTHER -> "none"

AddUserError(username, email, fault) ==
    CASE fault # "none" -> EnvError(fault)
      [] ~tables -> "UndefinedTable"
      [] \E u \in users : u.username = username \/ u.email = email -> "UniqueViolation"
      [] OTHER -> "none"

\* add_user as a result: the rows and the sequence afterwards, the value
\* returned and the exception that leaves the method
AddUserResUpsert(username, hashed_password, email, fault) ==
    LET err == AddUserError(username, email, fault)
        row == [user_id |-> user_seq + 1, username |-> username,
                password |-> hashed_password, email |-> email] IN
    [ users |-> IF err = "none" THEN users \cup {row}
                ELSE IF err = "UniqueViolation"
                  THEN { u \in users : u.username # username /\ u.email # email } \cup {row}
                  ELSE users,
      user_seq |-> IF err \in {"none", "UniqueViolation"} THEN user_seq + 1 ELSE user_seq,
      ret |-> IF fault = "connect" THEN "None" ELSE IF err = "none" THEN "True" ELSE "False",
      raised |-> Raised(fault),
      error |-> err ]

AddUserRes(username, hashed_password, email, fault) ==
    LET err == AddUserError(username, email, fault) IN
    [ users |-> IF err = "none"
                  THEN users \cup { [user_id |-> user_seq + 1, username |-> username,
                                     password |-> hashed_password, email |-> email] }
                  ELSE users,
      \* nextval is drawn before the unique index is consulted
      user_seq |-> IF err \in {"none", "UniqueViolation"} THEN user_seq + 1 ELSE user_seq,
      ret |-> IF fault = "connect" THEN "None" ELSE IF err = "none" THEN "True" ELSE "False",
      raised |-> Raised(fault),
      error |-> err ]

\* ------------------------------------------------------------- register
Register(username, password, salt, email, fault) ==
    /\ user_seq < MaxUserSeq
    /\ LET hashed_password == Hashpw(password, salt)
           valid_email == CheckEmail(email) IN
       IF ~valid_email.valid
         THEN /\ UNCHANGED << users, user_seq, connection, live, registered >>
              /\ last' = [NoCall EXCEPT !.op = "register", !.layer = "user",
                                        !.name = username, !.email = email,
                                        !.ret = "False",
                                        !.message = "Invalid email"]
         ELSE LET r == AddUserRes(username, hashed_password, valid_email.email, fault)
                  c == AfterCall(Conn, fault) IN
              /\ users' = r.users
              /\ user_seq' = r.user_seq
              /\ registered' = IF r.ret = "True"
                                 THEN registered \cup { << username, password >> }
                                 ELSE registered
              /\ connection' = c.connection
              /\ live' = c.live
              /\ last' = [NoCall EXCEPT !.op = "register", !.layer = "user",
                                        !.name = username, !.email = email,
                                        !.fault = fault,
                                        !.ret = r.ret, !.raised = r.raised,
                                        !.error = r.error, !.calls = << "add_user" >>]
    /\ UNCHANGED << session, tables, categories, types, transactions,
                    category_seq, type_seq, transaction_seq >>

\* ------------------------------------------------------------- get_user
GetUserError(fault) ==
    CASE fault # "none" -> EnvError(fault)
      [] ~tables -> "UndefinedTable"
      [] OTHER -> "none"

\* the rows cursor.fetchone() can give back (username is unique: at most one)
GetUserRows(username, fault) ==
    IF GetUserError(fault) = "none"
      THEN { u \in users : u.username = username }
      ELSE {}

GetUserRes(username, fault) ==
    LET found == GetUserRows(username, fault) IN
    [ rows |-> found,
      ret |-> IF found # {} THEN "dict" ELSE "None",
      raised |-> Raised(fault),
      error |-> GetUserError(fault) ]

GetUser(username, fault) ==
    /\ LET r == GetUserRes(username, fault)
           c == AfterCall(Conn, fault) IN
         /\ last' = [NoCall EXCEPT !.op = "get_user", !.layer = "db", !.name = username,
                                   !.fault = fault, !.ret = r.ret, !.raised = r.raised,
                                   !.error = r.error, !.rows = r.rows,
                                   !.calls = << "get_user" >>]
         /\ connection' = c.connection
         /\ live' = c.live
    /\ UNCHANGED store

\* ---------------------------------------------------------------- login
LoginRetNoCheck(username, password, fault) ==
    LET r == GetUserRes(username, fault) IN
    IF r.raised # "none" THEN [ret |-> "False", message |-> "Error accessing the database"]
    ELSE IF r.rows = {} THEN [ret |-> "False", message |-> "Username not found."]
    ELSE [ret |-> "True", message |-> "none"]

LoginRet(username, password, fault) ==
    LET r == GetUserRes(username, fault) IN
    IF r.raised # "none" THEN [ret |-> "False", message |-> "Error accessing the database"]
    ELSE IF r.rows = {} THEN [ret |-> "False", message |-> "Username not found."]
    ELSE IF \E u \in r.rows : Checkpw(password, u.password)
      THEN [ret |-> "True", message |-> "none"]
      ELSE [ret |-> "False", message |-> "Invalid password."]

Login(username, password, fault) ==
    /\ LET r == LoginRet(username, password, fault)
           g == GetUserRes(username, fault)
           c == AfterCall(Conn, fault) IN
         /\ last' = [NoCall EXCEPT !.op = "login", !.layer = "user", !.name = username,
                                   !.password = password, !.fault = fault, !.ret = r.ret,
                                   !.error = g.error, !.message = r.message,
                                   !.calls = << "get_user" >>]
         /\ connection' = c.connection
         /\ live' = c.live
    /\ UNCHANGED store

\* ------------------------------------------------------ add_transaction
\* the outcome of the INSERT INTO transactions statement: the three
\* REFERENCES clauses of the table are checked by the store
AddTransactionError(user_id, category, type_of_transaction, fault) ==
    CASE fault # "none" -> EnvError(fault)
      [] ~tables -> "UndefinedTable"
      [] \/ ~\E u \in users : u.user_id = user_id
         \/ ~\E c \in categories : c.category_id = category
         \/ ~\E t \in types : t.type_id = type_of_transaction -> "ForeignKeyViolation"
      [] OTHER -> "none"

AddTransactionResReuseId(user_id, amount, category, description, date, type_of_transaction, fault) ==
    LET err == AddTransactionError(user_id, category, type_of_transaction, fault) IN
    [ transactions |->
        IF err = "none"
          THEN transactions \cup
                 { [transaction_id |-> Cardinality(transactions) + 1, user_id |-> user_id,
                    amount |-> amount, category |-> category, description |-> description,
                    date |-> date, type |-> type_of_transaction] }
          ELSE transactions,
      transaction_seq |-> IF err \in {"none", "ForeignKeyViolation"}
                            THEN transaction_seq + 1 ELSE transaction_seq,
      ret |-> IF fault = "connect" THEN "None" ELSE IF err = "none" THEN "True" ELSE "False",
      raised |-> Raised(fault),
      error |-> err ]

AddTransactionRes(user_id, amount, category, description, date, type_of_transaction, fault) ==
    LET err == AddTransactionError(user_id, category, type_of_transaction, fault) IN
    [ transactions |->
        IF err = "none"
          THEN transactions \cup
                 { [transaction_id |-> transaction_seq + 1, user_id |-> user_id,
                    amount |-> amount, category |-> category, description |-> description,
                    date |-> date, type |-> type_of_transaction] }
          ELSE transactions,
      transaction_seq |-> IF err \in {"none", "ForeignKeyViolation"}
                            THEN transaction_seq + 1 ELSE transaction_seq,
      ret |-> IF fault = "connect" THEN "None" ELSE IF err = "none" THEN "True" ELSE "False",
      raised |-> Raised(fault),
      error |-> err ]

AddTransaction(user_id, amount, category, description, date, type_of_transaction, fault) ==
    /\ transaction_seq < MaxTransactions
    /\ LET r == AddTransactionRes(user_id, amount, category, description, date,
                                  type_of_transaction, fault)
           c == AfterCall(Conn, fault) IN
         /\ transactions' = r.transactions
         /\ transaction_seq' = r.transaction_seq
         /\ connection' = c.connection
         /\ live' = c.live
         /\ last' = [NoCall EXCEPT !.op = "add_transaction", !.layer = "db",
                                   !.actor = user_id, !.fault = fault, !.ret = r.ret,
                                   !.raised = r.raised, !.error = r.error,
                                   !.calls = << "add_transaction" >>]
    /\ UNCHANGED << session, registered, tables, users, categories, types, user_seq, category_seq, type_seq >>

\* ------------------------------------------------------ statement errors
\* a statement on transactions that no row can make fail
StatementError(fault) ==
    CASE fault # "none" -> EnvError(fault)
      [] ~tables -> "UndefinedTable"
      [] OTHER -> "none"

\* ------------------------------------------------ show_all_transactions
\* LEFT JOIN: the name of the row with that id, NULL when there is none
CategoryName(id) ==
    IF \E c \in categories : c.category_id = id
      THEN (CHOOSE c \in categories : c.category_id = id).category_name
      ELSE "NULL"

TypeName(id) ==
    IF \E t \in types : t.type_id = id
      THEN (CHOOSE t \in types : t.type_id = id).type_name
      ELSE "NULL"

JoinedRow(t) ==
    [ transaction_id |-> t.transaction_id, user_id |-> t.user_id, amount |-> t.amount,
      category_name |-> CategoryName(t.category), description |-> t.description,
      date |-> t.date, type_name |-> TypeName(t.type) ]

\* the rows of the SELECT ... WHERE user_id=%s
SelectTransactionsNoWhere(user_id) == { JoinedRow(t) : t \in transactions }

SelectTransactions(user_id) ==
    { JoinedRow(t) : t \in { x \in transactions : x.user_id = user_id } }

ShowAllTransactionsRes(user_id, fault) ==
    [ rows |-> IF StatementError(fault) = "none" THEN SelectTransactions(user_id) ELSE {},
      ret |-> "None",
      raised |-> Raised(fault),
      error |-> StatementError(fault) ]

ShowAllTransactions(user_id, fault) ==
    /\ LET r == ShowAllTransactionsRes(user_id, fault)
           c == AfterCall(Conn, fault) IN
         /\ connection' = c.connection
         /\ live' = c.live
         /\ last' = [NoCall EXCEPT !.op = "show_all_transactions", !.layer = "db",
                                   !.actor = user_id, !.fault = fault, !.ret = r.ret,
                                   !.raised = r.raised, !.error = r.error, !.rows = r.rows,
                                   !.calls = << "show_all_transactions" >>]
    /\ UNCHANGED store

\* --------------------------------- show_total_income, show_total_expenses
RECURSIVE SumAmounts(_)
SumAmounts(S) ==
    IF S = {} THEN 0
    ELSE LET t == CHOOSE x \in S : TRUE IN t.amount + SumAmounts(S \ {t})

\* select sum(amount) ... where user_id = %s and type = <type_id>: NULL
\* over no rows
ShowTotalResAllUsers(user_id, type_id, fault) ==
    LET err == StatementError(fault)
        matching == { t \in transactions : t.type = type_id } IN
    [ ret |-> IF err = "none" /\ matching # {} THEN "number" ELSE "None",
      total |-> IF err = "none" THEN SumAmounts(matching) ELSE 0,
      raised |-> Raised(fault),
      error |-> err ]

ShowTotalRes(user_id, type_id, fault) ==
    LET err == StatementError(fault)
        matching == { t \in transactions : t.user_id = user_id /\ t.type = type_id } IN
    [ ret |-> IF err = "none" /\ matching # {} THEN "number" ELSE "None",
      total |-> IF err = "none" THEN SumAmounts(matching) ELSE 0,
      raised |-> Raised(fault),
      error |-> err ]

ShowTotal(op, type_id, user_id, fault) ==
    /\ LET r == ShowTotalRes(user_id, type_id, fault)
           c == AfterCall(Conn, fault) IN
         /\ connection' = c.connection
         /\ live' = c.live
         /\ last' = [NoCall EXCEPT !.op = op, !.layer = "db", !.actor = user_id,
                                   !.fault = fault, !.ret = r.ret, !.total = r.total,
                                   !.raised = r.raised, !.error = r.error,
                                   !.calls = << op >>]
    /\ UNCHANGED store

ShowTotalIncome(user_id, fault) == ShowTotal("show_total_income", 1, user_id, fault)

ShowTotalExpenses(user_id, fault) == ShowTotal("show_total_expenses", 2, user_id, fault)

\* ---------------------------------------------------- check_if_eligible
\* True only for a row whose user_id is the caller's; a database error
\* is printed and the method falls off its end (None)
CheckIfEligibleRetAnyOwner(user_id, transaction_id, fault) ==
    IF StatementError(fault) # "none" THEN "None"
    ELSE IF ~\E t \in transactions : t.transaction_id = transaction_id THEN "False"
    ELSE "True"

CheckIfEligibleRetMissingRow(user_id, transaction_id, fault) ==
    IF StatementError(fault) # "none" THEN "None"
    ELSE IF \E t \in transactions : t.transaction_id = transaction_id /\ t.user_id # user_id
      THEN "False"
      ELSE "True"

CheckIfEligibleRet(user_id, transaction_id, fault) ==
    IF StatementError(fault) # "none" THEN "None"
    ELSE IF ~\E t \in transactions : t.transaction_id = transaction_id THEN "False"
    ELSE IF \E t \in transactions : t.transaction_id = transaction_id /\ t.user_id = user_id
      THEN "True"
      ELSE "False"

CheckIfEligibleRes(user_id, transaction_id, fault) ==
    [ ret |-> CheckIfEligibleRet(user_id, transaction_id, fault),
      raised |-> Raised(fault),
      error |-> StatementError(fault),
      message |-> IF StatementError(fault) = "none"
                     /\ ~\E t \in transactions : t.transaction_id = transaction_id
                    THEN "No transaction found" ELSE "none" ]

CheckIfEligible(user_id, transaction_id, fault) ==
    /\ LET r == CheckIfEligibleRes(user_id, transaction_id, fault)
           c == AfterCall(Conn, fault) IN
         /\ connection' = c.connection
         /\ live' = c.live
         /\ last' = [NoCall EXCEPT !.op = "check_if_eligible", !.layer = "db",
                                   !.actor = user_id, !.tid = transaction_id,
                                   !.fault = fault, !.ret = r.ret, !.raised = r.raised,
                                   !.error = r.error, !.message = r.message,
                                   !.calls = << "check_if_eligible" >>]
    /\ UNCHANGED store

\* --------------------------------------------------- delete_transaction
DeleteTransactionRows(transaction_id, fault) ==
    IF StatementError(fault) = "none"
      THEN { t \in transactions : t.transaction_id # transaction_id }
      ELSE transactions

DeleteTransaction(transaction_id, fault) ==
    /\ LET c == AfterCall(Conn, fault) IN
         /\ connection' = c.connection
         /\ live' = c.live
    /\ transactions' = DeleteTransactionRows(transaction_id, fault)
    /\ last' = [NoCall EXCEPT !.op = "delete_transaction", !.layer = "db",
                              !.tid = transaction_id, !.fault = fault,
                              !.raised = Raised(fault), !.error = StatementError(fault),
                              !.calls = << "delete_transaction" >>]
    /\ UNCHANGED << session, registered, tables, users, categories, types,
                    user_seq, category_seq, type_seq, transaction_seq >>

\* ------- update_amount_of_transaction, update_description_of_transaction
UpdateAmountRowsNoWhere(amount, transaction_id, fault) ==
    IF StatementError(fault) = "none"
      THEN { [t EXCEPT !.amount = amount] : t \in transactions }
      ELSE transactions

UpdateAmountRows(amount, transaction_id, fault) ==
    IF StatementError(fault) = "none"
      THEN { IF t.transaction_id = transaction_id THEN [t EXCEPT !.amount = amount] ELSE t :
               t \in transactions }
      ELSE transactions

UpdateDescriptionRowsNoWhere(description, transaction_id, fault) ==
    IF StatementError(fault) = "none"
      THEN { [t EXCEPT !.description = description] : t \in transactions }
      ELSE transactions

UpdateDescriptionRows(description, transaction_id, fault) ==
    IF StatementError(fault) = "none"
      THEN { IF t.transaction_id = transaction_id
               THEN [t EXCEPT !.description = description] ELSE t : t \in transactions }
      ELSE transactions

UpdateAmountOfTransaction(amount, transaction_id, fault) ==
    /\ LET c == AfterCall(Conn, fault) IN
         /\ connection' = c.connection
         /\ live' = c.live
    /\ transactions' = UpdateAmountRows(amount, transaction_id, fault)
    /\ last' = [NoCall EXCEPT !.op = "update_amount_of_transaction", !.layer = "db",
                              !.tid = transaction_id, !.fault = fault, !.amount = amount,
                              !.raised = Raised(fault), !.error = StatementError(fault),
                              !.calls = << "update_amount_of_transaction" >>]
    /\ UNCHANGED << session, registered, tables, users, categories, types,
                    user_seq, category_seq, type_seq, transaction_seq >>

UpdateDescriptionOfTransaction(description, transaction_id, fault) ==
    /\ LET c == AfterCall(Conn, fault) IN
         /\ connection' = c.connection
         /\ live' = c.live
    /\ transactions' = UpdateDescriptionRows(description, transaction_id, fault)
    /\ last' = [NoCall EXCEPT !.op = "update_description_of_transaction", !.layer = "db",
                              !.tid = transaction_id, !.fault = fault,
                              !.description = description,
                              !.raised = Raised(fault), !.error = StatementError(fault),
                              !.calls = << "update_description_of_transaction" >>]
    /\ UNCHANGED << session, registered, tables, users, categories, types,
                    user_seq, category_seq, type_seq, transaction_seq >>

\* -------------------------------------------------------- console input
\* the lines a user can type at a prompt
IntTokens == << "1", "2", "3", "4", "5", "6", "7" >>

\* int(input(...)): the value, or ValueError
ParseInt(tok) ==
    IF \E i \in 1..Len(IntTokens) : IntTokens[i] = tok
      THEN [ok |-> TRUE, value |-> CHOOSE i \in 1..Len(IntTokens) : IntTokens[i] = tok]
      ELSE [ok |-> FALSE, value |-> 0]

\* float(input(...)): the value, or ValueError
ParseFloat(tok) ==
    CASE tok = "50" -> [ok |-> TRUE, value |-> 50]
      [] tok = "75" -> [ok |-> TRUE, value |-> 75]
      [] tok = "0" -> [ok |-> TRUE, value |-> 0]
      [] tok = "-5" -> [ok |-> TRUE, value |-> 0 - 5]
      [] OTHER -> [ok |-> FALSE, value |-> 0]

\* datetime.strptime(line, '%Y-%m-%d'): the date, or ValueError
ParseDate(tok) ==
    IF tok = "2024-01-05" THEN [ok |-> TRUE, value |-> tok] ELSE [ok |-> FALSE, value |-> ""]

\* User.get_amount: ask until a number greater than 0 is typed.  Each
\* loop gives the value and the number of lines it read; ok is FALSE when
\* the lines run out before one is accepted
RECURSIVE GetAmountAnyNumber(_)
GetAmountAnyNumber(toks) ==
    IF toks = << >> THEN [ok |-> FALSE, value |-> 0, asked |-> 0]
    ELSE LET p == ParseFloat(Head(toks))
             r == GetAmountAnyNumber(Tail(toks)) IN
         IF p.ok
           THEN [ok |-> TRUE, value |-> p.value, asked |-> 1]
           ELSE [r EXCEPT !.asked = r.asked + 1]

RECURSIVE GetAmount(_)
GetAmount(toks) ==
    IF toks = << >> THEN [ok |-> FALSE, value |-> 0, asked |-> 0]
    ELSE LET p == ParseFloat(Head(toks))
             r == GetAmount(Tail(toks)) IN
         IF p.ok /\ p.value > 0
           THEN [ok |-> TRUE, value |-> p.value, asked |-> 1]
           ELSE [r EXCEPT !.asked = r.asked + 1]

\* User.get_category: ask until one of the six keys is typed
RECURSIVE GetCategory(_)
GetCategory(toks) ==
    IF toks = << >> THEN [ok |-> FALSE, value |-> 0, asked |-> 0]
    ELSE LET p == ParseInt(Head(toks))
             r == GetCategory(Tail(toks)) IN
         IF p.ok /\ p.value \in 1..6
           THEN [ok |-> TRUE, value |-> p.value, asked |-> 1]
           ELSE [r EXCEPT !.asked = r.asked + 1]

\* User.get_valid_date: a blank line is today
RECURSIVE GetValidDate(_)
GetValidDate(toks) ==
    IF toks = << >> THEN [ok |-> FALSE, value |-> "", asked |-> 0]
    ELSE LET p == ParseDate(Head(toks))
             r == GetValidDate(Tail(toks)) IN
         IF Head(toks) = "" THEN [ok |-> TRUE, value |-> "today", asked |-> 1]
         ELSE IF p.ok THEN [ok |-> TRUE, value |-> p.value, asked |-> 1]
         ELSE [r EXCEPT !.asked = r.asked + 1]

\* User.get_transaction_type: ask until 1 or 2 is typed
RECURSIVE GetTransactionType(_)
GetTransactionType(toks) ==
    IF toks = << >> THEN [ok |-> FALSE, value |-> 0, asked |-> 0]
    ELSE LET p == ParseInt(Head(toks))
             r == GetTransactionType(Tail(toks)) IN
         IF p.ok /\ p.value \in {1, 2}
           THEN [ok |-> TRUE, value |-> p.value, asked |-> 1]
           ELSE [r EXCEPT !.asked = r.asked + 1]

\* the "Type 1 or 2" loop of User.update_transaction
RECURSIVE GetUpdateChoice(_)
GetUpdateChoice(toks) ==
    IF toks = << >> THEN [ok |-> FALSE, value |-> 0, asked |-> 0]
    ELSE LET p == ParseInt(Head(toks))
             r == GetUpdateChoice(Tail(toks)) IN
         IF p.ok /\ p.value \in {1, 2}
           THEN [ok |-> TRUE, value |-> p.value, asked |-> 1]
           ELSE [r EXCEPT !.asked = r.asked + 1]

\* the attributes class Database defines; a call of any other name on a
\* Database object is an AttributeError
DatabaseMethods ==
    { "connect", "close", "db_init", "add_user", "get_user", "add_transaction",
      "show_all_transactions", "show_total_income", "show_total_expenses",
      "delete_transaction", "update_amount_of_transaction",
      "update_description_of_transaction", "check_if_eligible" }

\* db.<name>: the attribute lookup that precedes the call
GetAttr(name) == IF name \in DatabaseMethods THEN "none" ELSE "AttributeError"

\* ------------------------------------------------ User.create_transaction
CreateTransaction(user_id, in, fault) ==
    LET amount == GetAmount(in.amounts)
        category == GetCategory(in.categories)
        valid_date == GetValidDate(in.dates)
        type_of_transaction == GetTransactionType(in.types) IN
    /\ amount.ok /\ category.ok /\ valid_date.ok /\ type_of_transaction.ok
    /\ transaction_seq < MaxTransactions
    /\ LET r == AddTransactionRes(user_id, amount.value, category.value, in.description,
                                  valid_date.value, type_of_transaction.value, fault)
           c == AfterCall(Conn, fault) IN
         /\ transactions' = r.transactions
         /\ transaction_seq' = r.transaction_seq
         /\ connection' = c.connection
         /\ live' = c.live
         /\ last' = [NoCall EXCEPT !.op = "create_transaction", !.layer = "user",
                                   !.actor = user_id, !.fault = fault,
                                   !.typed = SubSeq(in.categories, 1, category.asked)
                                               \o SubSeq(in.types, 1, type_of_transaction.asked),
                                   !.amount = amount.value,
                                   !.raised = r.raised, !.error = r.error,
                                   !.calls = << "add_transaction" >>]
    /\ UNCHANGED << session, registered, tables, users, categories, types, user_seq, category_seq, type_seq >>

\* ------------------------------------------------ User.delete_transaction
\* db.check_eligible is not an attribute of Database: once the id has
\* been read the call raises AttributeError, which "except ValueError"
\* lets through
UserDeleteTransaction(user_id, tok) ==
    /\ LET transaction_id == ParseInt(tok) IN
         last' = IF ~transaction_id.ok
                   THEN [NoCall EXCEPT !.op = "delete_transaction", !.layer = "user",
                                       !.actor = user_id, !.typed = << tok >>,
                                       !.message = "Invalid input"]
                   ELSE [NoCall EXCEPT !.op = "delete_transaction", !.layer = "user",
                                       !.actor = user_id, !.tid = transaction_id.value,
                                       !.typed = << tok >>,
                                       !.calls = << "check_eligible" >>,
                                       !.raised = GetAttr("check_eligible")]
    /\ UNCHANGED << store, connection, live >>

\* ------------------------------------------------ User.update_transaction
\* int(input(...)) stands outside any try; the eligibility check gates the
\* menu, and a check that is not True ends the method without a word
UserUpdateTransaction(user_id, tok, in, f1, f2) ==
    LET transaction_id == ParseInt(tok)
        eligible == CheckIfEligibleRes(user_id, transaction_id.value, f1)
        c1 == AfterCall(Conn, f1)
        c2 == AfterCall(c1, f2)
        user_choice == GetUpdateChoice(in.choices)
        amount == GetAmount(in.amounts)
        call == [NoCall EXCEPT !.op = "update_transaction", !.layer = "user",
                               !.actor = user_id, !.typed = << tok >>] IN
    IF ~transaction_id.ok
      THEN /\ last' = [call EXCEPT !.raised = "ValueError"]
           /\ UNCHANGED << store, connection, live >>
    ELSE IF eligible.raised # "none" \/ eligible.ret # "True"
      THEN /\ last' = [call EXCEPT !.tid = transaction_id.value, !.fault = f1,
                                   !.raised = eligible.raised, !.error = eligible.error,
                                   !.message = eligible.message,
                                   !.calls = << "check_if_eligible" >>]
           /\ connection' = c1.connection
           /\ live' = c1.live
           /\ UNCHANGED store
    ELSE /\ user_choice.ok
         /\ user_choice.value = 1 => amount.ok
         /\ transactions' =
              IF user_choice.value = 1
                THEN UpdateAmountRows(amount.value, transaction_id.value, f2)
                ELSE UpdateDescriptionRows(in.description, transaction_id.value, f2)
         /\ last' = [call EXCEPT !.tid = transaction_id.value, !.fault = f2,
                                 !.raised = Raised(f2), !.error = StatementError(f2),
                                 !.typed = << tok >> \o SubSeq(in.choices, 1, user_choice.asked),
                                 !.amount = IF user_choice.value = 1 THEN amount.value ELSE 0,
                                 !.calls = << "check_if_eligible",
                                              IF user_choice.value = 1
                                                THEN "update_amount_of_transaction"
                                                ELSE "update_description_of_transaction" >>]
         /\ connection' = c2.connection
         /\ live' = c2.live
         /\ UNCHANGED << session, registered, tables, users, categories, types,
                         user_seq, category_seq, type_seq, transaction_seq >>

\* ------------------------------- User.update_transaction, call by call
\* two shells on one store: each data-access call of a session is a step
\* of its own, so the calls of the other session fall between the
\* eligibility check and the update.  The first step reads the
\* transaction id and asks check_if_eligible; the session goes on only
\* when the answer is True
UpdateCheckStep(user_id, tok) ==
    LET transaction_id == ParseInt(tok)
        eligible == CheckIfEligibleRes(user_id, transaction_id.value, "none")
        c == AfterCall(Conn, "none")
        call == [NoCall EXCEPT !.op = "update_transaction", !.layer = "user",
                               !.actor = user_id, !.typed = << tok >>] IN
    /\ session[user_id].pc = "menu"
    /\ IF ~transaction_id.ok
         THEN /\ last' = [call EXCEPT !.raised = "ValueError"]
              /\ UNCHANGED << store, connection, live >>
         ELSE /\ last' = [call EXCEPT !.tid = transaction_id.value,
                                      !.ret = eligible.ret, !.message = eligible.message,
                                      !.calls = << "check_if_eligible" >>]
              /\ session' = IF eligible.ret = "True"
                              THEN [session EXCEPT ![user_id] =
                                      [pc |-> "eligible",
                                       transaction_id |-> transaction_id.value]]
                              ELSE session
              /\ connection' = c.connection
              /\ live' = c.live
              /\ UNCHANGED << registered, tables, users, categories, types, transactions,
                              user_seq, category_seq, type_seq, transaction_seq >>

\* the second step: the field choice, the value, and the UPDATE of the
\* row with the transaction id the session holds
UpdateWriteStep(user_id, in) ==
    LET transaction_id == session[user_id].transaction_id
        user_choice == GetUpdateChoice(in.choices)
        amount == GetAmount(in.amounts)
        c == AfterCall(Conn, "none") IN
    /\ session[user_id].pc = "eligible"
    /\ user_choice.ok
    /\ user_choice.value = 1 => amount.ok
    /\ transactions' =
         IF user_choice.value = 1
           THEN UpdateAmountRows(amount.value, transaction_id, "none")
           ELSE UpdateDescriptionRows(in.description, transaction_id, "none")
    /\ last' = [NoCall EXCEPT !.op = "update_transaction", !.layer = "user",
                              !.actor = user_id, !.tid = transaction_id,
                              !.typed = SubSeq(in.choices, 1, user_choice.asked),
                              !.amount = IF user_choice.value = 1 THEN amount.value ELSE 0,
                              !.calls = << IF user_choice.value = 1
                                             THEN "update_amount_of_transaction"
                                             ELSE "update_description_of_transaction" >>]
    /\ session' = [session EXCEPT ![user_id] = AtMenu]
    /\ connection' = c.connection
    /\ live' = c.live
    /\ UNCHANGED << registered, tables, users, categories, types,
                    user_seq, category_seq, type_seq, transaction_seq >>

\* -------------------------------------------------- User.show_transactions
\* what one pass of the loop displays
Shown(what, ret, rows, total) ==
    [what |-> what, ret |-> ret, rows |-> rows, total |-> total]

\* the "while True" loop inside "try ... except ValueError": each line typed
\* is one pass.  1, 2 and 3 call the Database method and go round again, 4
\* looks up db.show_balance, any other integer prints the notice and goes
\* round again, and a line that is no integer leaves the loop through the
\* except clause.  ok is FALSE while the loop still waits for a line
RECURSIVE ShowTransactionsLoop(_, _, _, _)
ShowTransactionsLoop(toks, user_id, fault, c) ==
    IF toks = << >>
      THEN [ok |-> FALSE, typed |-> << >>, calls |-> << >>, out |-> << >>,
            raised |-> "none", message |-> "none", conn |-> c]
    ELSE
      LET user == ParseInt(Head(toks))
          done == [ok |-> TRUE, typed |-> << Head(toks) >>, calls |-> << >>, out |-> << >>,
                   raised |-> "none", message |-> "none", conn |-> c]
          method == CASE user.value = 1 -> "show_all_transactions"
                      [] user.value = 2 -> "show_total_income"
                      [] user.value = 3 -> "show_total_expenses"
                      [] OTHER -> "show_balance"
          all == ShowAllTransactionsRes(user_id, fault)
          total == ShowTotalRes(user_id, IF user.value = 2 THEN 1 ELSE 2, fault)
          shown == IF user.value = 1
                     THEN Shown(method, all.ret, all.rows, 0)
                     ELSE Shown(method, total.ret, {}, total.total)
          c2 == AfterCall(c, fault)
          rest == ShowTransactionsLoop(Tail(toks), user_id, fault,
                                       IF user.value \in 1..3 THEN c2 ELSE c) IN
      IF ~user.ok
        THEN [done EXCEPT !.message = "You should type an integer"]
      ELSE IF user.value = 4
        THEN [done EXCEPT !.calls = << method >>, !.raised = GetAttr(method)]
      ELSE IF user.value \in 1..3 /\ Raised(fault) # "none"
        THEN [done EXCEPT !.calls = << method >>, !.raised = Raised(fault), !.conn = c2]
      ELSE IF user.value \in 1..3
        THEN [rest EXCEPT !.typed = << Head(toks) >> \o rest.typed,
                          !.calls = << method >> \o rest.calls,
                          !.out = << shown >> \o rest.out]
      ELSE [rest EXCEPT !.typed = << Head(toks) >> \o rest.typed,
                        !.out = << Shown("notice", "None", {}, 0) >> \o rest.out]

UserShowTransactions(user_id, toks, fault) ==
    LET r == ShowTransactionsLoop(toks, user_id, fault, Conn) IN
    /\ r.ok
    /\ last' = [NoCall EXCEPT !.op = "show_transactions", !.layer = "user",
                              !.actor = user_id, !.fault = fault, !.typed = r.typed,
                              !.calls = r.calls, !.out = r.out,
                              !.raised = r.raised, !.message = r.message]
    /\ connection' = r.conn.connection
    /\ live' = r.conn.live
    /\ UNCHANGED store

\* ------------------------------------------------------------------ main
\* "if user.login(db):" guards everything main does with the session
MainEntersMenuAlways(login_ret) == TRUE

MainEntersMenu(login_ret) == login_ret = "True"

\* main: db_init, the three prompts, login, and after a successful login
\* the lookup of the user_id and the call db.show_transactions(user_id).
\* login and get_user see the store as db_init has left it.  The e-mail
\* address typed is stored in the User object and not used again
Main(username, password, f0, f1, f2) ==
    LET c0 == AfterCall(Conn, f0)
        c1 == AfterCall(c0, f1)
        c2 == AfterCall(c1, f2)
        call == [NoCall EXCEPT !.op = "main", !.layer = "shell", !.name = username,
                               !.password = password] IN
    /\ category_seq < MaxInits * Len(CategoryNames)
    /\ IF f0 = "none"
         THEN /\ tables' = TRUE
              /\ categories' = categories \cup SeedCategories(category_seq)
              /\ types' = types \cup SeedTypes(type_seq)
              /\ category_seq' = category_seq + Len(CategoryNames)
              /\ type_seq' = type_seq + Len(TypeNames)
         ELSE UNCHANGED << tables, categories, types, category_seq, type_seq >>
    /\ UNCHANGED << session, registered, users, transactions, user_seq, transaction_seq >>
    /\ IF Raised(f0) # "none"
         THEN \* db_init itself raises: main ends before the prompts
              /\ last' = [call EXCEPT !.fault = f0, !.raised = Raised(f0),
                                      !.calls = << "db_init" >>]
              /\ connection' = c0.connection
              /\ live' = c0.live
       ELSE IF ~MainEntersMenu(LoginRet(username, password, f1)'.ret)
         THEN /\ last' = [call EXCEPT !.fault = f1,
                                      !.login = LoginRet(username, password, f1)'.ret,
                                      !.message = LoginRet(username, password, f1)'.message,
                                      !.calls = << "db_init", "get_user" >>]
              /\ connection' = c1.connection
              /\ live' = c1.live
       ELSE /\ last' =
                 LET login == LoginRet(username, password, f1)'
                     g == GetUserRes(username, f2)'
                     entered == [call EXCEPT !.fault = f2, !.login = login.ret,
                                             !.message = "Login successful."] IN
                 IF g.raised # "none"
                   THEN [entered EXCEPT !.raised = g.raised,
                                        !.calls = << "db_init", "get_user", "get_user" >>]
                 ELSE IF g.rows = {}
                   THEN \* None['user_id']
                        [entered EXCEPT !.raised = "TypeError",
                                        !.calls = << "db_init", "get_user", "get_user" >>]
                 ELSE [entered EXCEPT !.actor = (CHOOSE u \in g.rows : TRUE).user_id,
                                      !.menu = "show_transactions",
                                      !.raised = GetAttr("show_transactions"),
                                      !.calls = << "db_init", "get_user", "get_user",
                                                   "show_transactions" >>]
            /\ connection' = c2.connection
            /\ live' = c2.live

\* ------------------------------------------------------ FinancialReport
\* self.db.fetch_data(query, params): the attribute lookup on the
\* Database object, which raises AttributeError for a name the class does
\* not define
FetchData(rows) ==
    IF "fetch_data" \in DatabaseMethods
      THEN [ret |-> "list", rows |-> rows, raised |-> "none"]
      ELSE [ret |-> "None", rows |-> {}, raised |-> "AttributeError"]

\* try: return self.db.fetch_data(...)  except Exception: print, return None
FetchCaughtReraise(r) == r

FetchCaught(r) ==
    IF r.raised # "none"
      THEN [ret |-> "None", rows |-> {}, raised |-> "none"]
      ELSE r

\* SELECT ... WHERE user_id=%s of fetch_all_transactions_from_db
FetchAllTransactionsFromDb(user_id) == FetchCaught(FetchData(SelectTransactions(user_id)))

\* SELECT amount ... WHERE transactions.user_id = %s AND types.type_name = <name>
SelectAmountsByTypeName(user_id, type_name) ==
    { t \in transactions : t.user_id = user_id /\ TypeName(t.type) = type_name }

FetchTotalIncomeFromDb(user_id) ==
    FetchCaught(FetchData(SelectAmountsByTypeName(user_id, "Income")))

FetchTotalExpensesFromDb(user_id) ==
    FetchCaught(FetchData(SelectAmountsByTypeName(user_id, "Expense")))

\* generate_all_transactions_report: "if transactions:" is false for None
\* and for an empty list, and both are answered with an empty frame
GenerateAllTransactionsReport(user_id) ==
    LET fetched == FetchAllTransactionsFromDb(user_id) IN
    IF fetched.raised # "none"
      THEN [ret |-> "None", rows |-> {}, raised |-> fetched.raised]
    ELSE IF fetched.ret = "None" \/ fetched.rows = {}
      THEN [ret |-> "empty", rows |-> {}, raised |-> "none"]
      ELSE [ret |-> "frame", rows |-> fetched.rows, raised |-> "none"]

\* generate_total_income_report / generate_total_expenses_report:
\* pd.DataFrame(None, columns=['Amount']) is empty, and an empty frame is
\* answered with an empty frame
TotalReport(fetched) ==
    IF fetched.raised # "none"
      THEN [ret |-> "None", total |-> 0, raised |-> fetched.raised]
    ELSE IF fetched.ret = "None" \/ fetched.rows = {}
      THEN [ret |-> "empty", total |-> 0, raised |-> "none"]
      ELSE [ret |-> "frame", total |-> SumAmounts(fetched.rows), raised |-> "none"]

GenerateTotalIncomeReport(user_id) == TotalReport(FetchTotalIncomeFromDb(user_id))

GenerateTotalExpensesReport(user_id) == TotalReport(FetchTotalExpensesFromDb(user_id))

\* calculate_total_income / calculate_total_expenses: 0 for an empty frame
CalculateTotalIncome(user_id) == GenerateTotalIncomeReport(user_id).total

CalculateTotalExpenses(user_id) == GenerateTotalExpensesReport(user_id).total

\* generate_balance_report: a one-row frame whose Balance is the
\* difference of the two calculated totals
GenerateBalanceReport(user_id) ==
    LET income == GenerateTotalIncomeReport(user_id)
        expenses == GenerateTotalExpensesReport(user_id) IN
    IF income.raised # "none"
      THEN [ret |-> "None", total |-> 0, raised |-> income.raised]
    ELSE IF expenses.raised # "none"
      THEN [ret |-> "None", total |-> 0, raised |-> expenses.raised]
      ELSE [ret |-> "frame",
            total |-> CalculateTotalIncome(user_id) - CalculateTotalExpenses(user_id),
            raised |-> "none"]

\* the calls of the reporting layer
FetchAllTransactionsCall(user_id) ==
    /\ LET r == FetchAllTransactionsFromDb(user_id) IN
         last' = [NoCall EXCEPT !.op = "fetch_all_transactions_from_db",
                                !.layer = "report", !.actor = user_id,
                                !.ret = r.ret, !.rows = r.rows, !.raised = r.raised,
                                !.error = FetchData(SelectTransactions(user_id)).raised,
                                !.calls = << "fetch_data" >>]
    /\ UNCHANGED << store, connection, live >>

FetchTotalIncomeCall(user_id) ==
    /\ LET r == FetchTotalIncomeFromDb(user_id) IN
         last' = [NoCall EXCEPT !.op = "fetch_total_income_from_db",
                                !.layer = "report", !.actor = user_id,
                                !.ret = r.ret, !.rows = r.rows, !.raised = r.raised,
                                !.error =
                                  FetchData(SelectAmountsByTypeName(user_id, "Income")).raised,
                                !.calls = << "fetch_data" >>]
    /\ UNCHANGED << store, connection, live >>

TotalIncomeReport(user_id) ==
    /\ LET r == GenerateTotalIncomeReport(user_id) IN
         last' = [NoCall EXCEPT !.op = "generate_total_income_report",
                                !.layer = "report", !.actor = user_id,
                                !.ret = r.ret, !.total = r.total, !.raised = r.raised]
    /\ UNCHANGED << store, connection, live >>

TotalExpensesReport(user_id) ==
    /\ LET r == GenerateTotalExpensesReport(user_id) IN
         last' = [NoCall EXCEPT !.op = "generate_total_expenses_report",
                                !.layer = "report", !.actor = user_id,
                                !.ret = r.ret, !.total = r.total, !.raised = r.raised]
    /\ UNCHANGED << store, connection, live >>

AllTransactionsReport(user_id) ==
    /\ LET r == GenerateAllTransactionsReport(user_id) IN
         last' = [NoCall EXCEPT !.op = "generate_all_transactions_report",
                                !.layer = "report", !.actor = user_id,
                                !.ret = r.ret, !.rows = r.rows, !.raised = r.raised]
    /\ UNCHANGED << store, connection, live >>

BalanceReport(user_id) ==
    /\ LET r == GenerateBalanceReport(user_id) IN
         last' = [NoCall EXCEPT !.op = "generate_balance_report",
                                !.layer = "report", !.actor = user_id,
                                !.ret = r.ret, !.total = r.total, !.raised = r.raised]
    /\ UNCHANGED << store, connection, live >>

\* ---------------------------------------------------------- environment
\* the canonical address of a user name
EmailOf(n) == [local |-> n, domain |-> "example.com"]

\* the store after db_init and the registration of alice and bob, as the
\* run  db_init, register alice, register bob  leaves it
InitSeeded ==
    /\ tables = TRUE
    /\ users = { [user_id |-> 1, username |-> "alice", password |-> Hashpw("pw123", 1),
                  email |-> EmailOf("alice")],
                 [user_id |-> 2, username |-> "bob", password |-> Hashpw("pw123", 1),
                  email |-> EmailOf("bob")] }
    /\ categories = SeedCategories(0)
    /\ types = SeedTypes(0)
    /\ transactions = {}
    /\ user_seq = 2
    /\ category_seq = Len(CategoryNames)
    /\ type_seq = Len(TypeNames)
    /\ transaction_seq = 0
    /\ connection = "None"
    /\ live = 0
    /\ last = [NoCall EXCEPT !.op = "register", !.layer = "user", !.name = "bob",
                             !.email = EmailOf("bob"), !.ret = "True",
                             !.calls = << "add_user" >>]
    /\ registered = { << "alice", "pw123" >>, << "bob", "pw123" >> }
    /\ session = [u \in SessionUserIds |-> AtMenu]

\* what is typed into the loop of User.show_transactions
ShowInputs ==
    { << "abc" >>, << "1", "x" >>, << "2", "3", "abc" >>, << "5", "1", "4" >> }

\* the user ids a caller passes: alice's, bob's and one that no row has
UserIds == {1, 2, 3}

\* the transaction ids a caller names: every id the sequence can have given out
TransactionIds == 1..MaxTransactions
TransactionTokens == { IntTokens[i] : i \in TransactionIds } \cup { "abc" }
CategoryIds == {1}
TypeIds == {1, 2}

\* what is typed into User.create_transaction
CreateInputs ==
    { [amounts |-> << "50" >>, categories |-> << "1" >>, description |-> "lunch",
       dates |-> << "2024-01-05" >>, types |-> << "2" >>],
      [amounts |-> << "0", "abc", "75" >>, categories |-> << "7", "x", "1" >>,
       description |-> "lunch", dates |-> << "05/01/2024", "2024-01-05" >>,
       types |-> << "3", "x", "1" >>] }

\* what is typed into User.update_transaction after the transaction id
UpdateInputs ==
    { [choices |-> << "1" >>, amounts |-> << "75" >>, description |-> ""],
      [choices |-> << "x", "3", "1" >>, amounts |-> << "-5", "50" >>, description |-> ""],
      [choices |-> << "2" >>, amounts |-> << >>, description |-> "taxi"] }

\* registration and login on a new store, with failing connections and
\* statements
NextUsers ==
    \/ \E f \in Faults : DbInit(f)
    \/ \E n \in Usernames, p \in Passwords, s \in Salts, e \in Emails, f \in Faults :
         Register(n, p, s, e, f)
    \/ \E n \in Usernames, f \in Faults : GetUser(n, f)
    \/ \E n \in Usernames, p \in Passwords, f \in Faults : Login(n, p, f)

SpecUsers == Init /\ [][NextUsers]_vars

\* the data-access layer on transactions, every method called directly
\* on a store that answers: adding, listing, checking, changing, deleting
NextDb ==
    \/ \E u \in UserIds, c \in CategoryIds :
         AddTransaction(u, 50, c, "lunch", "2024-01-05", 2, "none")
    \/ \E u \in UserIds : ShowAllTransactions(u, "none")
    \/ \E u \in UserIds, t \in TransactionIds : CheckIfEligible(u, t, "none")
    \/ \E t \in TransactionIds : DeleteTransaction(t, "none")
    \/ \E a \in Amounts, t \in TransactionIds : UpdateAmountOfTransaction(a, t, "none")
    \/ \E d \in Descriptions, t \in TransactionIds :
         UpdateDescriptionOfTransaction(d, t, "none")
    \/ \E u \in SessionUserIds : AllTransactionsReport(u)

SpecDb == InitSeeded /\ [][NextDb]_vars

\* the totals of income and expenses, by the data-access layer and by the
\* reports, over transactions of both types
NextTotals ==
    \/ \E u \in SessionUserIds, c \in CategoryIds, t \in TypeIds :
         AddTransaction(u, 50, c, "lunch", "2024-01-05", t, "none")
    \/ \E t \in TransactionIds : DeleteTransaction(t, "none")
    \/ \E a \in Amounts, t \in TransactionIds : UpdateAmountOfTransaction(a, t, "none")
    \/ \E u \in SessionUserIds : ShowTotalIncome(u, "none")
    \/ \E u \in SessionUserIds : ShowTotalExpenses(u, "none")
    \/ \E u \in SessionUserIds : TotalIncomeReport(u)
    \/ \E u \in SessionUserIds : TotalExpensesReport(u)
    \/ \E u \in SessionUserIds : BalanceReport(u)
    \/ \E u \in SessionUserIds : AllTransactionsReport(u)
    \/ \E u \in SessionUserIds : FetchAllTransactionsCall(u)
    \/ \E u \in SessionUserIds : FetchTotalIncomeCall(u)

SpecTotals == InitSeeded /\ [][NextTotals]_vars

\* every method of the layer when connections and statements fail
NextFaults ==
    \/ \E f \in Faults : DbInit(f)
    \/ \E n \in Usernames, f \in Faults : Register(n, "pw123", 1, EmailOf(n), f)
    \/ \E n \in Usernames, f \in Faults : GetUser(n, f)
    \/ \E u \in {1, 2}, f \in Faults :
         AddTransaction(u, 50, 1, "lunch", "2024-01-05", 2, f)
    \/ \E u \in {1, 2}, f \in Faults : ShowAllTransactions(u, f)
    \/ \E u \in {1, 2}, f \in Faults : ShowTotalIncome(u, f)
    \/ \E u \in {1, 2}, f \in Faults : ShowTotalExpenses(u, f)
    \/ \E u \in {1, 2}, t \in TransactionIds, f \in Faults : CheckIfEligible(u, t, f)
    \/ \E t \in TransactionIds, f \in Faults : DeleteTransaction(t, f)
    \/ \E t \in TransactionIds, f \in Faults : UpdateAmountOfTransaction(75, t, f)
    \/ \E t \in TransactionIds, f \in Faults : UpdateDescriptionOfTransaction("lunch", t, f)

SpecFaults == InitSeeded /\ [][NextFaults]_vars

\* runs of main on a new store, with users registered between them and
\* with failing connections and statements
NextMain ==
    \/ \E n \in Usernames, f \in Faults : Register(n, "pw123", 1, EmailOf(n), f)
    \/ \E n \in Usernames, p \in Passwords, f0 \in Faults, f1 \in Faults, f2 \in Faults :
         Main(n, p, f0, f1, f2)

SpecMain == Init /\ [][NextMain]_vars

\* the user names typed at a registration that follows alice's and bob's
LaterUsernames == {"bob", "carol"}

\* registration, login and lookup next to every operation on transactions
\* and every report
NextFrame ==
    \/ \E n \in LaterUsernames, f \in Faults : Register(n, "pw123", 1, EmailOf(n), f)
    \/ \E n \in LaterUsernames : GetUser(n, "none")
    \/ \E n \in LaterUsernames, p \in Passwords : Login(n, p, "none")
    \/ AddTransaction(1, 50, 1, "lunch", "2024-01-05", 2, "none")
    \/ \E u \in SessionUserIds : ShowAllTransactions(u, "none")
    \/ \E u \in SessionUserIds : ShowTotalIncome(u, "none")
    \/ \E u \in SessionUserIds : ShowTotalExpenses(u, "none")
    \/ \E u \in SessionUserIds, t \in TransactionIds : CheckIfEligible(u, t, "none")
    \/ \E t \in TransactionIds : DeleteTransaction(t, "none")
    \/ \E t \in TransactionIds : UpdateAmountOfTransaction(75, t, "none")
    \/ \E t \in TransactionIds : UpdateDescriptionOfTransaction("lunch", t, "none")
    \/ \E u \in SessionUserIds : AllTransactionsReport(u)
    \/ \E u \in SessionUserIds : TotalIncomeReport(u)
    \/ \E u \in SessionUserIds : TotalExpensesReport(u)
    \/ \E u \in SessionUserIds : BalanceReport(u)

SpecFrame == InitSeeded /\ [][NextFrame]_vars

\* what the interleaved sessions type into User.update_transaction
SessionUpdateInputs == { in \in UpdateInputs : Len(in.choices) = 1 }

\* two shell sessions on one store.  add_transaction is the one call of
\* create_transaction, and the shell's delete makes no call; a row leaves
\* the table by Database.delete_transaction called directly
NextSessions ==
    \/ \E u \in SessionUserIds :
         /\ session[u].pc = "menu"
         /\ CreateTransaction(u, CHOOSE in \in CreateInputs : Len(in.amounts) = 1, "none")
    \/ \E u \in SessionUserIds, tok \in TransactionTokens :
         /\ session[u].pc = "menu"
         /\ UserDeleteTransaction(u, tok)
    \/ \E u \in SessionUserIds, tok \in TransactionTokens : UpdateCheckStep(u, tok)
    \/ \E u \in SessionUserIds, in \in SessionUpdateInputs : UpdateWriteStep(u, in)
    \/ \E t \in TransactionIds : DeleteTransaction(t, "none")

SpecSessions == InitSeeded /\ [][NextSessions]_vars

\* the operations of User on transactions, as the shell runs them
Next ==
    \/ \E u \in SessionUserIds, in \in CreateInputs : CreateTransaction(u, in, "none")
    \/ \E u \in SessionUserIds, tok \in TransactionTokens : UserDeleteTransaction(u, tok)
    \/ \E u \in SessionUserIds, tok \in TransactionTokens, in \in UpdateInputs :
         UserUpdateTransaction(u, tok, in, "none", "none")

Spec == InitSeeded /\ [][Next]_vars

\* the view sub-menu of User over the transactions the shell has added,
\* with failing connections and statements
NextView ==
    \/ \E u \in SessionUserIds, in \in CreateInputs : CreateTransaction(u, in, "none")
    \/ \E u \in SessionUserIds, toks \in ShowInputs, f \in Faults :
         UserShowTransactions(u, toks, f)

SpecView == InitSeeded /\ [][NextView]_vars
\* ================================================================ claims

\* C1: a transaction is deleted or has its amount or description changed
\* only by a delete or update action of User whose acting user_id is the
\* transaction's stored user_id and which names that transaction; an
\* attempt by any other user_id leaves the transaction as it was.
C1_OwnerGatesMutation ==
    [][ \A t \in transactions :
          t \notin transactions' =>
            /\ last'.layer = "user"
            /\ last'.op \in {"delete_transaction", "update_transaction"}
            /\ last'.actor = t.user_id
            /\ last'.tid = t.transaction_id ]_vars

\* the owner of a transaction has updated its amount while another
\* user's transaction is stored
C1_Witness ==
    /\ last.op = "update_transaction"
    /\ last.calls = << "check_if_eligible", "update_amount_of_transaction" >>
    /\ \E t \in transactions :
         t.transaction_id = last.tid /\ t.user_id = last.actor /\ t.amount = 75
    /\ \E t \in transactions : t.user_id # last.actor

\* C2: check_if_eligible(u, t) returns True when t exists and its stored
\* owner is u, and False when t does not exist or its stored owner is
\* another user.
C2_Eligible ==
    last.op = "check_if_eligible" =>
      /\ last.raised = "none"
      /\ (\E t \in transactions : t.transaction_id = last.tid /\ t.user_id = last.actor)
           => last.ret = "True"
      /\ (~\E t \in transactions : t.transaction_id = last.tid /\ t.user_id = last.actor)
           => last.ret = "False"

\* the check was answered True for the owner while a transaction of
\* another user is stored
C2_Witness ==
    /\ last.op = "check_if_eligible"
    /\ last.ret = "True"
    /\ \E t \in transactions : t.transaction_id = last.tid /\ t.user_id = last.actor
    /\ \E t \in transactions : t.user_id # last.actor

\* C3: after any data-access operation has ended, whether it succeeded,
\* met a database error or failed to connect, the Database object holds no
\* connection: the attribute is None and every connection opened is closed.
C3_NoConnectionLeft ==
    /\ connection = "None"
    /\ live = 0

\* a call of check_if_eligible that met a database error has ended, after
\* an earlier call failed to connect or not
C3_Witness ==
    /\ last.op = "check_if_eligible"
    /\ last.fault = "db"
    /\ last.ret = "None"
    /\ connection = "None"
    /\ transactions # {}
\* C4: db_init is idempotent: however often it has run, the store holds
\* exactly the six category rows and the two type rows.
C4_DbInitIdempotent ==
    tables =>
      /\ Cardinality(categories) = Len(CategoryNames)
      /\ Cardinality(types) = Len(TypeNames)
      /\ { c.category_name : c \in categories } =
           { CategoryNames[i] : i \in 1..Len(CategoryNames) }
      /\ { t.type_name : t \in types } = { TypeNames[i] : i \in 1..Len(TypeNames) }

\* the e-mail address a call hands to add_user
AddUserEmail(call) ==
    [local |-> call.email.local, domain |-> Lower(call.email.domain)]

\* C5: an add_user call whose username or email equals that of a stored
\* user does not return True (it returns False whenever the statement
\* reached the store) and leaves every stored user row unchanged; so no
\* two user rows ever share a username, an email or a user_id.
C5_DuplicateUserRejected ==
    /\ [][ ( /\ last'.calls = << "add_user" >>
             /\ \E u \in users :
                  u.username = last'.name \/ u.email = AddUserEmail(last') )
           => /\ last'.ret # "True"
              /\ last'.fault # "connect" => last'.ret = "False"
              /\ users' = users ]_vars
    /\ [](\A u, v \in users :
            u # v => /\ u.username # v.username
                     /\ u.email # v.email
                     /\ u.user_id # v.user_id)

\* a registration was refused by the unique constraints while the store
\* answered
C5_Witness ==
    /\ last.op = "register"
    /\ last.error = "UniqueViolation"
    /\ last.ret = "False"
    /\ \E u \in users : u.username # last.name /\ u.email = AddUserEmail(last)

\* C6: register on a User whose email is syntactically invalid returns
\* False and never calls add_user: no connection is opened and the users
\* table and its sequence are unchanged.
C6_InvalidEmailNotPersisted ==
    [][ (last'.op = "register" /\ (last'.email.local = "" \/ last'.email.domain = ""))
        => /\ last'.ret = "False"
           /\ last'.calls = << >>
           /\ last'.raised = "none"
           /\ users' = users
           /\ user_seq' = user_seq ]_vars

\* a registration with an invalid address was refused on a store that
\* holds a user
C6_Witness ==
    /\ last.op = "register"
    /\ last.email.domain = ""
    /\ last.ret = "False"
    /\ tables
    /\ users # {}

\* C7: login never raises and returns True or False; it returns True only
\* for a (username, password) pair that was registered, and returns True
\* for every registered pair when the lookup meets no failure.
C7_LoginMatchesRegistration ==
    last.op = "login" =>
      /\ last.raised = "none"
      /\ last.ret \in {"True", "False"}
      /\ last.ret = "True" => << last.name, last.password >> \in registered
      /\ (last.fault = "none" /\ << last.name, last.password >> \in registered)
           => last.ret = "True"

\* a login with the registered password succeeded while another user is
\* registered too
C7_Witness ==
    /\ last.op = "login"
    /\ last.ret = "True"
    /\ << last.name, last.password >> \in registered
    /\ Cardinality(users) = 2

\* C8: a data-access operation that meets a database error, a failure
\* to open the connection included, does not raise: add_user returns
\* False and get_user returns None.
C8_ErrorsStayInside ==
    (last.calls \in { << "add_user" >>, << "get_user" >> } /\ last.op # "login"
       /\ last.fault # "none")
      => /\ last.raised = "none"
         /\ last.ret = IF last.calls = << "add_user" >> THEN "False" ELSE "None"

C10_ReportTotals ==
    /\ last.op = "generate_total_income_report" =>
         last.total = SumAmounts({ t \in transactions :
                                     t.user_id = last.actor /\ TypeName(t.type) = "Income" })
    /\ last.op = "generate_total_expenses_report" =>
         last.total = SumAmounts({ t \in transactions :
                                     t.user_id = last.actor /\ TypeName(t.type) = "Expense" })
\* C11: in every store state reached by adding, updating and deleting,
\* the Balance of generate_balance_report(u) is the sum of u's Income
\* amounts minus the sum of u's Expense amounts.
C11_BalanceIsIncomeMinusExpenses ==
    last.op = "generate_balance_report" =>
      /\ last.raised = "none"
      /\ last.total =
           SumAmounts({ t \in transactions :
                          t.user_id = last.actor /\ TypeName(t.type) = "Income" })
           - SumAmounts({ t \in transactions :
                            t.user_id = last.actor /\ TypeName(t.type) = "Expense" })
\* the generate_* operations of the reporting layer
ReportOps ==
    { "generate_all_transactions_report", "generate_total_income_report",
      "generate_total_expenses_report", "generate_balance_report" }

\* C12: no reporting operation (all transactions, total income, total
\* expenses, balance) raises to its caller, in any store state and when
\* its data access fails; for a user with no transactions each one gives
\* an empty or zero result.
C12_ReportsNeverRaise ==
    last.op \in ReportOps =>
      /\ last.raised = "none"
      /\ last.ret \in {"empty", "frame"}
      /\ (~\E t \in transactions : t.user_id = last.actor) =>
           /\ last.rows = {}
           /\ last.total = 0
           /\ last.op # "generate_balance_report" => last.ret = "empty"

\* the balance report of a user without transactions came back as zero
\* while another user's transactions are stored
C12_Witness ==
    /\ last.op = "generate_balance_report"
    /\ last.raised = "none"
    /\ last.total = 0
    /\ ~\E t \in transactions : t.user_id = last.actor
    /\ transactions # {}

\* C13: show_total_income(u) and show_total_expenses(u) return the sum of
\* the amounts of u's stored transactions of type Income and of type
\* Expense, and return null, without raising, when u has no transaction
\* of that type.
C13_ShowTotals ==
    last.op \in {"show_total_income", "show_total_expenses"} =>
      LET name == IF last.op = "show_total_income" THEN "Income" ELSE "Expense"
          matching == { t \in transactions :
                          t.user_id = last.actor /\ TypeName(t.type) = name } IN
      /\ last.raised = "none"
      /\ IF matching = {}
           THEN last.ret = "None"
           ELSE last.ret = "number" /\ last.total = SumAmounts(matching)

\* the total income of a user whose only transaction is an Expense came
\* back as null while another user has an Income
C13_Witness ==
    /\ last.op = "show_total_income"
    /\ last.ret = "None"
    /\ \E t \in transactions : t.user_id = last.actor /\ TypeName(t.type) = "Expense"
    /\ \E t \in transactions : t.user_id # last.actor /\ TypeName(t.type) = "Income"
\* C14: whenever the query of the reporting layer fails, the generic query
\* operation gives back an empty sequence and no exception reaches the
\* report.
C14_QueryFailureGivesEmptySequence ==
    (last.calls = << "fetch_data" >> /\ last.error # "none") =>
      /\ last.raised = "none"
      /\ last.ret = "list"
      /\ last.rows = {}
\* C15: when the owner of an existing transaction t runs the delete
\* action of User with t's id, the action ends without raising, t is gone
\* from the owner's transactions and every other transaction is as it was.
C15_OwnerDeleteRemoves ==
    [][ \A t \in transactions :
          ( /\ last'.op = "delete_transaction"
            /\ last'.layer = "user"
            /\ last'.tid = t.transaction_id
            /\ last'.actor = t.user_id )
          => /\ last'.raised = "none"
             /\ transactions' = transactions \ {t} ]_vars

\* C16: the update action of User run by the owner of transaction t with
\* a new amount sets t's stored amount to that value and changes nothing
\* else; run with another user's id it is refused: no update statement is
\* issued and t's amount and description stay as they were.
C16_OwnerUpdatesOthersRefused ==
    [][ \A t \in transactions :
          (last'.op = "update_transaction" /\ last'.tid = t.transaction_id) =>
            /\ ( /\ last'.actor = t.user_id
                 /\ last'.calls = << "check_if_eligible", "update_amount_of_transaction" >> )
               => /\ last'.raised = "none"
                  /\ last'.amount > 0
                  /\ transactions' =
                       (transactions \ {t}) \cup { [t EXCEPT !.amount = last'.amount] }
            /\ last'.actor # t.user_id
               => /\ last'.raised = "none"
                  /\ last'.calls = << "check_if_eligible" >>
                  /\ transactions' = transactions ]_vars

\* the owner has set the amount of a transaction to 50, after typing two
\* lines that the field prompt refused, while another user's transaction
\* keeps its amount of 75
C16_Witness ==
    /\ last.op = "update_transaction"
    /\ last.calls = << "check_if_eligible", "update_amount_of_transaction" >>
    /\ last.amount = 50
    /\ Len(last.typed) = 4
    /\ \E t \in transactions :
         t.transaction_id = last.tid /\ t.user_id = last.actor /\ t.amount = 50
    /\ \E t \in transactions : t.user_id # last.actor /\ t.amount = 75

\* what the shell prints when it refuses a delete or an update
RefusalMessages == { "You are not eligible to delete this transaction", "No transaction found" }

\* C17: when a user who does not own the transaction named, or who names
\* a transaction that does not exist, runs the delete or the update action
\* of User, the action ends with a refusal message and raises nothing.
C17_RefusalIsAMessage ==
    ( /\ last.layer = "user"
      /\ last.op \in {"delete_transaction", "update_transaction"}
      /\ last.tid # 0
      /\ ~\E t \in transactions :
           t.transaction_id = last.tid /\ t.user_id = last.actor )
    => /\ last.raised = "none"
       /\ last.message \in RefusalMessages

\* C18: at every integer prompt of the shell (the choice of the view
\* sub-menu, the transaction id of delete and of update, the field choice
\* of update) a line that is no integer is caught and the prompt is issued
\* again: no ValueError leaves the action, and the action does not end on
\* such a line.
C18_NonIntegerIsAskedAgain ==
    (last.layer = "user" /\ last.typed # << >>) =>
      /\ last.raised # "ValueError"
      /\ ParseInt(last.typed[Len(last.typed)]).ok
\* C19: main goes on to the menu call only after login returned True in
\* the same run, and the user_id it passes is the user_id of the stored
\* row with the username that logged in; a run whose login failed makes
\* no call on transactions.
C19_MenuOnlyAfterLogin ==
    last.op = "main" =>
      /\ last.menu # "none" =>
           /\ last.login = "True"
           /\ << last.name, last.password >> \in registered
           /\ \E u \in users : u.username = last.name /\ u.user_id = last.actor
      /\ last.login # "True" =>
           /\ last.menu = "none"
           /\ last.actor = 0
           /\ last.calls \in { << "db_init" >>, << "db_init", "get_user" >> }

\* the second registered user has logged in and main has gone on to the
\* menu call with that user's id
C19_Witness ==
    /\ last.op = "main"
    /\ last.login = "True"
    /\ last.menu = "show_transactions"
    /\ last.actor = 2
    /\ Cardinality(users) = 2

\* C20: once authenticated, a session goes back to the menu after every
\* action, failed or not, and ends only by the explicit exit choice: a run
\* of main whose login succeeded ends without an exception and by that
\* choice.
C20_SessionEndsByExitChoice ==
    (last.op = "main" /\ last.login = "True") =>
      /\ last.raised = "none"
      /\ last.message = "exit"
\* what the view sub-menu is to display for a choice
SubMenuReport(choice) ==
    CASE choice = 1 -> "show_all_transactions"
      [] choice = 2 -> "show_total_income"
      [] choice = 3 -> "show_total_expenses"
      [] choice = 4 -> "show_balance"
      [] OTHER -> "notice"

\* C21: in the view sub-menu each of the choices 1 to 4 displays the
\* corresponding report for the session's user (1 all transactions, 2
\* total income, 3 total expenses, 4 balance) without raising, and any
\* other integer prints the notice and asks again.
C21_SubMenuChoices ==
    (last.op = "show_transactions" /\ last.fault = "none") =>
      /\ last.raised = "none"
      /\ \A i \in 1..Len(last.typed) :
           ParseInt(last.typed[i]).ok =>
             /\ i <= Len(last.out)
             /\ last.out[i].what = SubMenuReport(ParseInt(last.typed[i]).value)
             /\ last.out[i].what = "show_all_transactions" =>
                  /\ \A r \in last.out[i].rows : r.user_id = last.actor
                  /\ Cardinality(last.out[i].rows) =
                       Cardinality({ t \in transactions : t.user_id = last.actor })
             /\ last.out[i].what = "show_total_income" =>
                  last.out[i].total =
                    SumAmounts({ t \in transactions :
                                   t.user_id = last.actor /\ TypeName(t.type) = "Income" })
             /\ last.out[i].what = "show_total_expenses" =>
                  last.out[i].total =
                    SumAmounts({ t \in transactions :
                                   t.user_id = last.actor /\ TypeName(t.type) = "Expense" })
\* C22: every transaction stored or changed through the add and update
\* actions of User has, in every reachable state, an amount greater than
\* 0, a category id in 1..6 and a type id in {1, 2}; a line outside these
\* sets is asked again and never stored.
C22_StoredValuesAreValid ==
    [][ /\ \A t \in transactions' :
             /\ t.amount > 0
             /\ t.category \in 1..6
             /\ t.type \in {1, 2}
        /\ (last'.layer = "user" /\ last'.op \in {"create_transaction", "update_transaction"})
           => \A t \in transactions' \ transactions :
                t.amount \in {last'.amount} \cup { x.amount : x \in transactions } ]_vars

\* a transaction was stored after an amount of 0, a category of 7 and a
\* type of 3 had been typed and asked again, and another one had its
\* amount set after -5 had been refused
C22_Witness ==
    /\ last.op = "update_transaction"
    /\ last.amount = 50
    /\ Len(last.typed) = 4
    /\ \E t \in transactions : t.transaction_id = last.tid /\ t.amount = 50 /\ t.type = 1
    /\ \E t \in transactions : t.amount = 75 /\ t.category = 1 /\ t.type = 1
\* C23: the users table changes only by a successful add_user, which adds
\* exactly one row: login, get_user, every operation on transactions and
\* every report leave all user rows as they were, and no user row is ever
\* changed or removed.
C23_UsersChangeOnlyByAddUser ==
    /\ [][ users' # users =>
             /\ last'.calls = << "add_user" >>
             /\ last'.ret = "True"
             /\ users \subseteq users'
             /\ Cardinality(users') = Cardinality(users) + 1 ]_vars
    /\ [][ (last'.calls = << "add_user" >> /\ last'.ret = "True" /\ last' # last) =>
             Cardinality(users') = Cardinality(users) + 1 ]_vars
    /\ [][ last'.calls # << "add_user" >> => users' = users ]_vars

\* a third user was registered while transactions are stored and the rows
\* of the first two users are still there
C23_Witness ==
    /\ last.op = "register"
    /\ last.ret = "True"
    /\ last.name = "carol"
    /\ Cardinality(users) = 3
    /\ \E u \in users : u.user_id = 1 /\ u.username = "alice"
    /\ transactions # {}
\* C24: update_amount_of_transaction(amount, t) changes only the amount of
\* transaction t and update_description_of_transaction(description, t)
\* only its description: t's owner, category, date, type and the other of
\* the two fields, and every other transaction, stay as they were; when t
\* does not exist no transaction changes.
C24_UpdateChangesOneField ==
    /\ [][ (last'.layer = "db" /\ last'.op = "update_amount_of_transaction") =>
             transactions' =
               { IF t.transaction_id = last'.tid
                   THEN [ transaction_id |-> t.transaction_id, user_id |-> t.user_id,
                          amount |-> last'.amount, category |-> t.category,
                          description |-> t.description, date |-> t.date, type |-> t.type ]
                   ELSE t : t \in transactions } ]_vars
    /\ [][ (last'.layer = "db" /\ last'.op = "update_description_of_transaction") =>
             transactions' =
               { IF t.transaction_id = last'.tid
                   THEN [ transaction_id |-> t.transaction_id, user_id |-> t.user_id,
                          amount |-> t.amount, category |-> t.category,
                          description |-> last'.description, date |-> t.date,
                          type |-> t.type ]
                   ELSE t : t \in transactions } ]_vars
    /\ [][ ( /\ last'.layer = "db"
             /\ last'.op \in {"update_amount_of_transaction",
                              "update_description_of_transaction"}
             /\ ~\E t \in transactions : t.transaction_id = last'.tid )
           => transactions' = transactions ]_vars

\* the description of a transaction whose amount had been set to 75 was
\* changed, and the other stored transaction still has what it was added
\* with
C24_Witness ==
    /\ last.op = "update_description_of_transaction"
    /\ last.layer = "db"
    /\ \E t \in transactions :
         t.transaction_id = last.tid /\ t.description = "taxi" /\ t.amount = 75
    /\ \E t \in transactions :
         t.transaction_id # last.tid /\ t.description = "lunch" /\ t.amount = 50
\* null counted as 0
NullAsZero(r) == IF r.ret = "None" THEN 0 ELSE r.total

\* C25: the two ways of totalling agree in every reachable store state:
\* for every user u, show_total_income(u), which filters on type id 1, and
\* calculate_total_income(u), which filters on the type name 'Income',
\* give the same total with null counted as 0, and likewise
\* show_total_expenses (type id 2) and calculate_total_expenses ('Expense').
C25_TotalsAgree ==
    \A u \in SessionUserIds :
      /\ NullAsZero(ShowTotalRes(u, 1, "none")) = CalculateTotalIncome(u)
      /\ NullAsZero(ShowTotalRes(u, 2, "none")) = CalculateTotalExpenses(u)
\* C26: when two shell sessions of different users interleave their
\* data-access calls on one store, a delete or update action of a user
\* never removes or changes a transaction whose stored owner is another
\* user, also when rows are added or deleted between that user's
\* eligibility check and the update.
C26_InterleavedSessionsKeepOwnership ==
    [][ (last'.layer = "user" /\ last'.op \in {"delete_transaction", "update_transaction"})
        => \A t \in transactions : t.user_id # last'.actor => t \in transactions' ]_vars

\* a session has issued its update for a transaction that was deleted
\* after its eligibility check, while a transaction of the other session
\* with a later id is stored with the amount it was added with
C26_Witness ==
    /\ last.op = "update_transaction"
    /\ last.calls = << "update_amount_of_transaction" >>
    /\ ~\E t \in transactions : t.transaction_id = last.tid
    /\ \E t \in transactions :
         t.user_id # last.actor /\ t.transaction_id > last.tid /\ t.amount = 50
====
